---- MODULE Spec2Model ----
(***************************************************************************)
(* Journal Grabber: the profile-driven polling and deduplication engine of *)
(* src/app.py (profile handlers, run_search_profile, schedule_profile,     *)
(* schedule_runner) and ArxivScraper.download_article of                   *)
(* src/arxiv_scraper.py.                                                   *)
(*                                                                         *)
(* Two threads execute run_search_profile: the background driver thread    *)
(* ("sched", schedule_runner) and a request thread ("manual",              *)
(* run_profile_now).  Their steps interleave at the database queries, the  *)
(* file-system test and the network calls.  The profile handlers are short *)
(* and are taken as one step each; they run on request threads, between    *)
(* any two steps of the driver, also while run_pending() is working        *)
(* through the jobs it found due.                                          *)
(*                                                                         *)
(* ArxivScraper.search_articles and the file naming of download_article    *)
(* are also modelled as calls of their own (scr), entered with any         *)
(* arguments.                                                              *)
(***************************************************************************)
EXTENDS Integers, Sequences, FiniteSets, TLC

\* ---------------------------------------------------------------- bounds
MaxLen == 2          \* longest result list the search returns
MaxTime == 1         \* the clock (hours) stops advancing here
MaxProfileId == 2    \* the profile table holds ids 1..MaxProfileId
MaxTopics == 3       \* longest topic list handed to search_articles

\* ------------------------------------------------------------ value sets
\* arXiv identifiers as character sequences; the first two are two versions
\* of one paper.
ArxivIds == { <<"1", "v", "1">>, <<"1", "v", "2">>, <<"2">> }
\* the identifiers the search endpoint comes up with
Found == { <<"1", "v", "1">>, <<"2">> }
Frequencies == {1, 2}                \* frequency_hours a request supplies
Runners == {"sched", "manual"}
NoRun == -1                          \* last_run IS NULL
NoPid == 0

\* All sequences over S of length 0..n
RECURSIVE SeqsUpTo(_, _)
SeqsUpTo(S, n) ==
    IF n = 0 THEN { <<>> }
    ELSE LET shorter == SeqsUpTo(S, n - 1)
         IN  shorter \cup { Append(s, x) : s \in { t \in shorter : Len(t) = n - 1 }, x \in S }

Absent == "absent"                   \* the entry dict has no 'title' key

\* What scraper.search_articles returns when every entry of the feed has its
\* title and summary elements
ResultLists == SeqsUpTo([id : Found, title : {"T"}], MaxLen)

\* _parse_arxiv_response: an entry is kept if it has an id; 'title' and
\* 'summary' are set only if the feed entry has the element
\* lists in which an entry may come in more than one version: the parser
\* keeps the version suffix of the entry's URI in the id
VersionLists == SeqsUpTo([id : ArxivIds, title : {"T"}], MaxLen)
ParsedLists == SeqsUpTo([id : Found, title : {"T", Absent}], MaxLen)

VARIABLES
    profiles,     \* table search_profile: id -> row
    catalog,      \* table downloaded_article: committed rows, in insert order
    files,        \* paths that exist in the download directory
    jobs,         \* schedule.jobs, the process-wide timer registry
    installed,    \* per profile id: the call that installed its timer last
    batch,        \* run_pending(): the due jobs it collected and has not finished
    now,          \* wall clock, in hours
    driverAlive,  \* the schedule_runner thread is running
    pc,           \* per runner: position inside run_search_profile
    run,          \* per runner: locals of run_search_profile and its session
    fetchCount,   \* per arXiv id: completed GETs of the artifact
    prev,         \* the last pipeline run that returned, if nothing ran since
    track,        \* whether prev is being recorded (fixed by Init)
    scr,          \* a call of an ArxivScraper method: arguments, locals, result
    response      \* what the last run_profile_now request was answered with,
                  \* noted when track is on

vars == <<profiles, catalog, files, jobs, installed, batch, now, driverAlive, pc, run, fetchCount, prev,
          track, scr, response>>

\* ------------------------------------------------------------- scheduler
Tagged(js, p) == { i \in DOMAIN js : js[i].tag = p }

\* schedule.clear(tag): drop every job carrying the tag
RECURSIVE ClearTag(_, _)
ClearTag(js, p) ==
    IF js = <<>> THEN <<>>
    ELSE IF Head(js).tag = p THEN ClearTag(Tail(js), p)
         ELSE <<Head(js)>> \o ClearTag(Tail(js), p)

\* schedule.every(n).hours.do(run_search_profile, profile).tag(job_tag)
NewJob(p, n, t) == [tag |-> p, interval |-> n, next_run |-> t + n]

ScheduleProfileNoClear(js, p, row, t) ==
    IF ~row.is_active THEN js
    ELSE Append(js, NewJob(p, row.frequency_hours, t))

\* schedule_profile(profile)
ScheduleProfile(js, p, row, t) ==
    IF ~row.is_active THEN js
    ELSE Append(ClearTag(js, p), NewJob(p, row.frequency_hours, t))

\* Startup (__main__): every active profile is scheduled, in id order
RECURSIVE StartupJobs(_, _)
StartupJobs(tbl, p) ==
    IF p > MaxProfileId THEN <<>>
    ELSE LET rest == StartupJobs(tbl, p + 1)
         IN  IF p \in DOMAIN tbl /\ tbl[p].is_active
             THEN <<NewJob(p, tbl[p].frequency_hours, 0)>> \o rest
             ELSE rest

\* --------------------------------------------------------------- catalog
CleanIdKeepsVersion(id) == id

\* download_article: clean_id = arxiv_id.split('v')[0]
RECURSIVE CleanId(_)
CleanId(id) ==
    IF id = <<>> \/ Head(id) = "v" THEN <<>>
    ELSE <<Head(id)>> \o CleanId(Tail(id))

\* download_article: filename = f"{clean_id}.pdf" inside download_path
FilePath(id) == CleanId(id) \o <<".pdf">>

IdsOf(rows) == { rows[i].arxiv_id : i \in DOMAIN rows }
RowsWithId(rows, id) == { i \in DOMAIN rows : rows[i].arxiv_id = id }

UniqueOkNoConstraint(cat, pend) == TRUE

\* DownloadedArticle.arxiv_id is unique=True: an INSERT of the session's
\* pending rows succeeds only if no identifier repeats
UniqueOk(cat, pend) ==
    /\ \A i \in DOMAIN pend : pend[i].arxiv_id \notin IdsOf(cat)
    /\ \A i, j \in DOMAIN pend : pend[i].arxiv_id = pend[j].arxiv_id => i = j

ExistingNever(cat, pend, id) == FALSE

ExistingAnyVersion(cat, pend, id) ==
    \/ \E i \in DOMAIN cat : CleanId(cat[i].arxiv_id) = CleanId(id)
    \/ \E i \in DOMAIN pend : CleanId(pend[i].arxiv_id) = CleanId(id)

\* DownloadedArticle.query.filter_by(arxiv_id=...).first(), as the session
\* sees it: committed rows and its own flushed rows
Existing(cat, pend, id) == id \in IdsOf(cat) \cup IdsOf(pend)

NewRow(id, path, p) == [arxiv_id |-> id, file_path |-> path, profile_id |-> p]

AddPendingForgotten(pend, row) == pend

\* db.session.add(downloaded_article)
AddPending(pend, row) == Append(pend, row)

\* ---------------------------------------------------------- ArxivScraper
\* A topic is a sequence of tokens: "cs.AI" is <<"cs", ".", "AI">>, and a
\* prefix such as 'cs.' is <<"cs", ".">>
SampleTopics ==
    { <<"cs", ".", "AI">>, <<"physics", ".", "gen-ph">>, <<"transformer">>,
      <<"astro-ph", ".", "CO">>, <<"quant-ph">>, <<"cs">> }

TopicLists == SeqsUpTo(SampleTopics, MaxTopics)

CategoryPrefixes ==
    { <<"cs", ".">>, <<"math", ".">>, <<"physics", ".">>, <<"astro-ph">>,
      <<"cond-mat">>, <<"quant-ph">>, <<"stat", ".">> }

BareCategories == { <<"cs">>, <<"math">>, <<"physics">> }

\* topic.startswith(prefix)
StartsWith(topic, prefix) ==
    /\ Len(prefix) <= Len(topic)
    /\ SubSeq(topic, 1, Len(prefix)) = prefix

\* '.' in topic
HasDot(topic) == \E i \in DOMAIN topic : topic[i] = "."

\* the test of the partition loop
IsCategory(topic) ==
    \/ /\ HasDot(topic)
       /\ \E prefix \in CategoryPrefixes : StartsWith(topic, prefix)
    \/ topic \in BareCategories

IsKeyword(topic) == ~IsCategory(topic)

\* the clauses of a query, in the order they are OR-joined; the date filter
\* is AND-ed to the end.  since is the days_back the start date comes from.
Clause(k, ts, d) == [kind |-> k, terms |-> ts, since |-> d]

\* '(' + ' OR '.join(cat:"c" ...) + ')', if there is a category term
CategoryPart(topics) ==
    LET category_terms == SelectSeq(topics, IsCategory)
    IN  IF category_terms # <<>> THEN <<Clause("cat", category_terms, 0)>> ELSE <<>>

\* one '(ti:"k" OR abs:"k")' per keyword term
KeywordParts(topics) ==
    LET keyword_terms == SelectSeq(topics, IsKeyword)
    IN  [i \in DOMAIN keyword_terms |-> Clause("ti_abs", <<keyword_terms[i]>>, 0)]

\* query = " OR ".join(search_parts), or "all"
JoinedQuery(topics) ==
    LET search_parts == CategoryPart(topics) \o KeywordParts(topics)
    IN  IF search_parts # <<>> THEN search_parts ELSE <<Clause("all", <<>>, 0)>>

\* query += ' AND submittedDate:[start_date* TO *]'
DatedQuery(topics, days_back) ==
    Append(JoinedQuery(topics), Clause("submittedDate", <<>>, days_back))

\* query.split(' AND submittedDate:')[0]
RECURSIVE BeforeDate(_)
BeforeDate(query) ==
    IF query = <<>> \/ Head(query).kind = "submittedDate" THEN <<>>
    ELSE <<Head(query)>> \o BeforeDate(Tail(query))

MaxResults == 50     \* run_search_profile: search_articles(topics, max_results=50)
RetryCap == 20       \* max_results = min(max_results, 20)
YearDays == 365      \* days_back < 365
DaysBack == {7, 30, 364, 365}
DefaultDaysBack == 30   \* def search_articles(self, topics, max_results=50, days_back=30)

Min(a, b) == IF a <= b THEN a ELSE b

NeedsRetryIfEmpty(articles, days_back) == Len(articles) = 0

\* if len(articles) == 0 and days_back < 365
NeedsRetry(articles, days_back) == Len(articles) = 0 /\ days_back < YearDays

\* what a GET of the arXiv API comes to: a RequestException, or a feed that
\* parses to a list of entries (a feed that does not parse gives [])
Responses ==
    {[ok |-> FALSE, entries |-> <<>>]} \cup [ok : {TRUE}, entries : ResultLists]

NoCall ==
    [fn |-> "none", pc |-> "none", topics |-> <<>>, max_results |-> 0,
     days_back |-> 0, arxiv_id |-> <<>>, query |-> <<>>, sent |-> <<>>,
     got |-> <<>>, articles |-> <<>>, filename |-> <<>>]

\* ------------------------------------------------------- run_profile_now
NoResponse == [kind |-> "none", success |-> FALSE, count |-> 0, error |-> "none"]

RunProfileNowNoExcept(ended, rr) ==
    IF ended = "done"
    THEN [kind |-> "json", success |-> TRUE, count |-> rr.count, error |-> "none"]
    ELSE [kind |-> "exception", success |-> FALSE, count |-> 0, error |-> rr.err]

\* try: downloaded_count = run_search_profile(profile); return jsonify(
\* success=True, message=count) / except Exception as e: return jsonify(
\* success=False, error=str(e))
RunProfileNow(ended, rr) ==
    IF ended = "done"
    THEN [kind |-> "json", success |-> TRUE, count |-> rr.count, error |-> "none"]
    ELSE [kind |-> "json", success |-> FALSE, count |-> 0, error |-> rr.err]

\* ------------------------------------------------------------------ state
\* Config: the limits of the poll interval
MIN_FREQUENCY_HOURS == 1
MAX_FREQUENCY_HOURS == 168

\* the topics of the profiles that are run
DefaultTopics == << <<"cs", ".", "AI">> >>

\* what a create or update request can carry: any JSON list as topics, any
\* integer as frequency_hours
RequestTopics == { <<>>, DefaultTopics }
RequestFrequencies == { 0, MIN_FREQUENCY_HOURS, MAX_FREQUENCY_HOURS, MAX_FREQUENCY_HOURS + 1 }

ProfileRows ==
    [topics : {DefaultTopics}, frequency_hours : Frequencies, is_active : BOOLEAN,
     last_run : {NoRun}]
ProfileIds == 1..MaxProfileId

InitTables == UNION { [S -> ProfileRows] : S \in SUBSET ProfileIds }

NoPrev == [pid |-> NoPid, articles |-> <<>>, anyFail |-> FALSE]

\* locals of run_search_profile (pid .. err), then what an observer of the
\* run notes down: stamped (last_run was written), and, when track is on,
\* seen (the list as returned), anyFail (a download returned None), solo (no
\* other run was under way), second (the run repeats the previous one),
\* prevFail (that one had a failed download), startSize (catalog size then)
IdleRun == [pid |-> NoPid, todo |-> <<>>, count |-> 0,
            pending |-> <<>>, file_path |-> <<"unset">>, err |-> "none",
            stamped |-> FALSE, seen |-> <<>>, anyFail |-> FALSE,
            solo |-> FALSE, second |-> FALSE, prevFail |-> FALSE, startSize |-> 0]

\* the process has started: the tables hold tbl, nothing is downloaded yet
\* and __main__ has scheduled the active profiles
Started(tbl, tr) ==
    /\ profiles = tbl
    /\ catalog = <<>>
    /\ files = {}
    /\ jobs = StartupJobs(tbl, 1)
    /\ installed = [p \in ProfileIds |->
                       IF p \in DOMAIN tbl /\ tbl[p].is_active THEN "startup" ELSE "none"]
    /\ batch = <<>>
    /\ now = 0
    /\ driverAlive = TRUE
    /\ pc = [r \in Runners |-> "idle"]
    /\ run = [r \in Runners |-> IdleRun]
    /\ fetchCount = [i \in ArxivIds |-> 0]
    /\ prev = NoPrev
    /\ track = tr
    /\ scr = NoCall
    /\ response = NoResponse

\* any profile table
Init == \E tbl \in InitTables : Started(tbl, FALSE)

\* every profile present, active and polled hourly
HourlyTable ==
    [p \in ProfileIds |-> [topics |-> DefaultTopics, frequency_hours |-> 1,
                           is_active |-> TRUE, last_run |-> NoRun]]

InitHourly == Started(HourlyTable, FALSE)

InitTracked == Started(HourlyTable, TRUE)

Other(r) == IF r = "sched" THEN "manual" ELSE "sched"
Active(r) == pc[r] # "idle"

\* ------------------------------------------------------ profile handlers
Max(S) == CHOOSE x \in S : \A y \in S : y <= x
\* the id the table gives a new row: SQLite's INTEGER PRIMARY KEY (the
\* database of config.py) takes the largest id in use plus one
NextId == Max(DOMAIN profiles \cup {0}) + 1

\* api_profiles POST
CreateProfile(topics, freq, active) ==
    /\ NextId <= MaxProfileId
    /\ LET row == [topics |-> topics, frequency_hours |-> freq, is_active |-> active,
                   last_run |-> NoRun]
       IN  /\ profiles' = [p \in DOMAIN profiles \cup {NextId} |->
                              IF p = NextId THEN row ELSE profiles[p]]
           /\ jobs' = ScheduleProfile(jobs, NextId, row, now)
           /\ installed' = [installed EXCEPT ![NextId] = IF active THEN "create" ELSE @]
    /\ UNCHANGED <<catalog, files, batch, now, driverAlive, pc, run, fetchCount, prev, track, scr, response>>

\* which kind of update installs the timer: one that turns the profile
\* active, one that changes the interval of an active profile, or one that
\* changes neither; for an inactive profile schedule_profile installs nothing
Installs(old, row, before) ==
    IF ~row.is_active THEN before
    ELSE IF ~old.is_active THEN "reactivate"
    ELSE IF row.frequency_hours # old.frequency_hours THEN "replace"
    ELSE "refresh"

\* api_profile_detail PUT
UpdateProfile(p, topics, freq, active) ==
    /\ p \in DOMAIN profiles
    /\ LET row == [profiles[p] EXCEPT !.topics = topics, !.frequency_hours = freq,
                                      !.is_active = active]
       IN  /\ profiles' = [profiles EXCEPT ![p] = row]
           /\ jobs' = ScheduleProfile(jobs, p, row, now)
           /\ installed' = [installed EXCEPT ![p] = Installs(profiles[p], row, @)]
    /\ UNCHANGED <<catalog, files, batch, now, driverAlive, pc, run, fetchCount, prev, track, scr, response>>

\* api_profile_detail DELETE
DeleteProfile(p) ==
    /\ p \in DOMAIN profiles
    /\ profiles' = [q \in DOMAIN profiles \ {p} |-> profiles[q]]
    /\ UNCHANGED <<catalog, files, jobs, installed, batch, now, driverAlive, pc, run, fetchCount, prev, track, scr, response>>

\* time passes
Tick ==
    /\ now < MaxTime
    /\ now' = now + 1
    /\ UNCHANGED <<profiles, catalog, files, jobs, installed, batch, driverAlive, pc, run, fetchCount, prev, track, scr, response>>

\* ------------------------------------------------- run_search_profile
None == <<>>                         \* download_article returned None
Unset == <<"unset">>                 \* file_path not assigned in this iteration

\* the for loop moves to the next article, or leaves the loop
NextPc(rr) == IF Len(rr.todo) > 1 THEN "check" ELSE "commit"

SaveAlways(pend, path, id, p) == AddPending(pend, NewRow(id, path, p))

\* if file_path: db.session.add(DownloadedArticle(...)) -- otherwise nothing
SaveIfDownloaded(pend, path, id, p) ==
    IF path # None THEN AddPending(pend, NewRow(id, path, p)) ELSE pend

CountedAlways(count, path) == count + 1

\* if file_path: ... downloaded_count += 1
Counted(count, path) == IF path # None THEN count + 1 ELSE count

\* the rest of a loop iteration once download_article has returned path
AfterDownload(rr, path) ==
    LET id == Head(rr.todo).id
    IN  [rr EXCEPT !.file_path = path,
                   !.pending = SaveIfDownloaded(rr.pending, path, id, rr.pid),
                   !.count = Counted(rr.count, path),
                   !.anyFail = rr.anyFail \/ (track /\ path = None),
                   !.todo = Tail(rr.todo)]

\* download_article has returned path.  With a path the row is built from
\* article['title'], article['summary'], ...: a missing key raises KeyError
Returned(r, path) ==
    LET rr == run[r]
    IN  IF path # None /\ Head(rr.todo).title = Absent
        THEN /\ pc' = [pc EXCEPT ![r] = "raised"]
             /\ run' = [run EXCEPT ![r].file_path = path, ![r].err = "KeyError"]
        ELSE /\ pc' = [pc EXCEPT ![r] = NextPc(rr)]
             /\ run' = [run EXCEPT ![r] = AfterDownload(rr, path)]

\* topics = json.loads(...); articles = scraper.search_articles(...);
\* downloaded_count = 0
BeginRun(r, p, arts) ==
    /\ pc' = [pc EXCEPT ![r] = IF arts = <<>> THEN "commit" ELSE "check"]
    /\ LET follows == /\ track
                      /\ ~Active(Other(r))
                      /\ prev.pid = p
                      /\ prev.articles = arts
       IN  run' = [run EXCEPT
                ![r] = [IdleRun EXCEPT !.pid = p, !.todo = arts,
                                       !.seen = IF track THEN arts ELSE <<>>,
                                       !.solo = track /\ ~Active(Other(r)),
                                       !.second = follows,
                                       !.prevFail = follows /\ prev.anyFail,
                                       !.startSize = IF track THEN Len(catalog) ELSE 0],
                ![Other(r)] = [@ EXCEPT !.solo = FALSE]]
    /\ prev' = NoPrev

\* run_profile_now: profile = get_or_404(profile_id); run_search_profile(profile)
ManualStart(p, arts) ==
    /\ pc["manual"] = "idle"
    /\ p \in DOMAIN profiles
    /\ BeginRun("manual", p, arts)
    /\ response' = NoResponse
    /\ UNCHANGED <<profiles, catalog, files, jobs, installed, batch, now, driverAlive, fetchCount, track, scr>>

\* Job.should_run
Due(i) == jobs[i].next_run <= now

\* sorted(): by next_run, jobs of the same hour in registry order
Earliest(I) ==
    CHOOSE i \in I : \A j \in I : \/ jobs[i].next_run < jobs[j].next_run
                                  \/ (jobs[i].next_run = jobs[j].next_run /\ i <= j)

RECURSIVE SortedJobs(_)
SortedJobs(I) ==
    IF I = {} THEN <<>>
    ELSE LET i == Earliest(I) IN <<jobs[i]>> \o SortedJobs(I \ {i})

\* run_pending(): sorted(job for job in self.jobs if job.should_run).  The
\* list is built once; the loop then runs the job objects it holds, whatever
\* schedule.clear() does to the registry meanwhile.
Runnable == SortedJobs({ i \in DOMAIN jobs : Due(i) })

\* schedule_runner: run_pending() collects the due jobs, or goes on with the
\* ones it collected, and calls the next job: run_search_profile(profile)
SchedStart(arts) ==
    /\ driverAlive
    /\ pc["sched"] = "idle"
    /\ LET todo == IF batch = <<>> THEN Runnable ELSE batch
       IN  /\ todo # <<>>
           /\ batch' = todo
           /\ BeginRun("sched", Head(todo).tag, arts)
    /\ UNCHANGED <<profiles, catalog, files, jobs, installed, now, driverAlive, fetchCount, track, scr, response>>

\* an exception leaves run_search_profile: nothing of the session is committed
Raise(r, e) ==
    /\ pc' = [pc EXCEPT ![r] = "raised"]
    /\ run' = [run EXCEPT ![r].err = e]

\* loop head: the query autoflushes the session, then looks the id up
Check(r) ==
    /\ pc[r] = "check"
    /\ LET rr == run[r]
           id == Head(rr.todo).id
       IN  IF ~UniqueOk(catalog, rr.pending)
           THEN Raise(r, "IntegrityError")
           ELSE IF Existing(catalog, rr.pending, id)
           THEN /\ pc' = [pc EXCEPT ![r] = NextPc(rr)]
                /\ run' = [run EXCEPT ![r].todo = Tail(rr.todo), ![r].file_path = Unset]
           ELSE /\ pc' = [pc EXCEPT ![r] = "download"]
                /\ run' = [run EXCEPT ![r].file_path = Unset]
    /\ UNCHANGED <<profiles, catalog, files, jobs, installed, batch, now, driverAlive, fetchCount, prev, track, scr, response>>

\* download_article up to the os.path.exists test
DownloadBegin(r) ==
    /\ pc[r] = "download"
    /\ LET rr == run[r]
           path == FilePath(Head(rr.todo).id)
       IN  IF path \in files
           THEN Returned(r, path)
           ELSE /\ pc' = [pc EXCEPT ![r] = "fetch"]
                /\ run' = run
    /\ UNCHANGED <<profiles, catalog, files, jobs, installed, batch, now, driverAlive, fetchCount, prev, track, scr, response>>

FetchOutcomes == {"ok", "error", "partial"}

\* download_article: requests.get, then the file is written chunk by chunk.
\* "error": the GET fails; "partial": the stream breaks after open()
Fetch(r, outcome) ==
    /\ pc[r] = "fetch"
    /\ LET rr == run[r]
           id == Head(rr.todo).id
           path == FilePath(id)
       IN  /\ files' = IF outcome = "error" THEN files ELSE files \cup {path}
           /\ fetchCount' = IF outcome = "ok"
                            THEN [fetchCount EXCEPT ![id] = @ + 1] ELSE fetchCount
           /\ Returned(r, IF outcome = "ok" THEN path ELSE None)
    /\ UNCHANGED <<profiles, catalog, jobs, installed, batch, now, driverAlive, prev, track, scr, response>>

PartlyInserted(cat, pend) ==
    cat \o SelectSeq(pend, LAMBDA row : row.arxiv_id \notin IdsOf(cat))

\* db.session.commit() raised: the transaction is rolled back, and with it
\* every INSERT of the session, also those an autoflush had sent before
RolledBack(cat, pend) == cat

\* profile.last_run = datetime.utcnow(); db.session.commit()
\* The commit flushes the pending rows, so the unique column is tested once
\* more.  If a handler deleted the profile row meanwhile, the UPDATE of a
\* manual run matches no row (StaleDataError); the profile object a job of
\* the driver carries has no row left to write and only the rows go in.
Commit(r) ==
    /\ pc[r] = "commit"
    /\ LET rr == run[r]
       IN  IF ~UniqueOk(catalog, rr.pending)
           THEN /\ Raise(r, "IntegrityError")
                /\ catalog' = RolledBack(catalog, rr.pending)
                /\ UNCHANGED profiles
           ELSE IF rr.pid \notin DOMAIN profiles /\ r = "manual"
           THEN /\ Raise(r, "StaleDataError")
                /\ catalog' = RolledBack(catalog, rr.pending)
                /\ UNCHANGED profiles
           ELSE /\ catalog' = catalog \o rr.pending
                /\ profiles' = IF rr.pid \in DOMAIN profiles
                               THEN [profiles EXCEPT ![rr.pid].last_run = now]
                               ELSE profiles
                /\ pc' = [pc EXCEPT ![r] = "done"]
                /\ run' = [run EXCEPT ![r].stamped = rr.pid \in DOMAIN profiles]
    /\ UNCHANGED <<files, jobs, installed, batch, now, driverAlive, fetchCount, prev, track, scr, response>>

\* run_search_profile has returned its count, or raised
Finished(r) == pc[r] \in {"done", "raised"}

\* the frame of run_search_profile is gone; the observer keeps the run if it
\* returned and had the program to itself
AfterRun(r) ==
    /\ pc' = [pc EXCEPT ![r] = "idle"]
    /\ run' = [run EXCEPT ![r] = IdleRun]
    /\ prev' = IF track /\ pc[r] = "done" /\ run[r].solo
               THEN [pid |-> run[r].pid, articles |-> run[r].seen,
                     anyFail |-> run[r].anyFail]
               ELSE NoPrev

\* run_profile_now: the count, or the exception, becomes the JSON response
ManualReturn ==
    /\ Finished("manual")
    /\ AfterRun("manual")
    /\ response' = IF track THEN RunProfileNow(pc["manual"], run["manual"]) ELSE response
    /\ UNCHANGED <<profiles, catalog, files, jobs, installed, batch, now, driverAlive, fetchCount, track, scr>>

\* Job.run after the job function returned: the job object is scheduled
\* again; a job that was cleared meanwhile is no longer in the registry
Reschedule(js, job) ==
    [i \in DOMAIN js |->
        IF js[i] = job THEN [job EXCEPT !.next_run = now + job.interval] ELSE js[i]]

\* schedule_runner: the job has returned and run_pending() goes on with its
\* list (the loop sleeps when the list is used up), or the job's exception
\* leaves run_pending() and the while loop with it
SchedReturn ==
    /\ Finished("sched")
    /\ AfterRun("sched")
    /\ IF pc["sched"] = "done"
       THEN /\ jobs' = Reschedule(jobs, Head(batch))
            /\ batch' = Tail(batch)
            /\ driverAlive' = driverAlive
       ELSE /\ jobs' = jobs
            /\ batch' = <<>>
            /\ driverAlive' = FALSE
    /\ UNCHANGED <<installed, profiles, catalog, files, now, fetchCount, track, scr, response>>

\* ------------------------------------------- calls of ArxivScraper methods
\* identifiers a feed entry can carry: digits, a dot, and a version suffix
SampleIds ==
    ArxivIds \cup { <<"2", "3", "0", "1", ".", "0", "0", "0", "0", "1", "v", "2">>,
                    <<"2", "3", "0", "1", ".", "0", "0", "0", "0", "1">>,
                    <<"7", "v", "1", "2">> }

Quiet == UNCHANGED <<profiles, catalog, files, jobs, installed, batch, now, driverAlive, pc, run,
                     fetchCount, prev, track, response>>

\* search_articles(topics, max_results=50, days_back) is entered, with any
\* topic list and any window
SearchCall ==
    /\ scr.fn = "none"
    /\ \E topics \in TopicLists, days_back \in DaysBack :
          scr' = [NoCall EXCEPT !.fn = "search", !.pc = "build", !.topics = topics,
                                !.max_results = MaxResults, !.days_back = days_back]
    /\ Quiet

\* search_articles: the partition of the topics and the query string
BuildQuery ==
    /\ scr.pc = "build"
    /\ scr' = [scr EXCEPT !.query = DatedQuery(scr.topics, scr.days_back), !.pc = "get"]
    /\ Quiet

\* one GET of the API with the current query and cap
Get(call, resp) ==
    [call EXCEPT !.sent = Append(@, [query |-> call.query, max_results |-> call.max_results]),
                 !.got = Append(@, resp)]

RequestFailedRetries(call) == [call EXCEPT !.pc = "retry"]

\* except requests.exceptions.RequestException as e: ...; return []
RequestFailed(call) == [call EXCEPT !.articles = <<>>, !.pc = "returned"]

\* search_articles: the first request.  A RequestException ends the call
\* with []; an empty list inside the window test prepares the second request
FirstGet(resp) ==
    /\ scr.pc = "get"
    /\ LET call == Get(scr, resp)
       IN  scr' = IF ~resp.ok
                  THEN RequestFailed(call)
                  ELSE IF NeedsRetry(resp.entries, scr.days_back)
                  THEN [call EXCEPT !.query = BeforeDate(scr.query),
                                    !.max_results = Min(scr.max_results, RetryCap),
                                    !.pc = "retry"]
                  ELSE [call EXCEPT !.articles = resp.entries, !.pc = "returned"]
    /\ Quiet

\* search_articles: the second request, inside the same try block
RetryGet(resp) ==
    /\ scr.pc = "retry"
    /\ LET call == Get(scr, resp)
       IN  scr' = IF ~resp.ok
                  THEN RequestFailed(call)
                  ELSE [call EXCEPT !.articles = resp.entries, !.pc = "returned"]
    /\ Quiet

\* download_article(arxiv_id, download_path) is entered, with any identifier
DownloadCall ==
    /\ scr.fn = "none"
    /\ \E id \in SampleIds :
          scr' = [NoCall EXCEPT !.fn = "download", !.pc = "name", !.arxiv_id = id]
    /\ Quiet

\* download_article: clean_id, filename, filepath
DownloadName ==
    /\ scr.pc = "name"
    /\ scr' = [scr EXCEPT !.filename = FilePath(scr.arxiv_id), !.pc = "returned"]
    /\ Quiet

\* the caller has the result
ScraperReturn ==
    /\ scr.pc = "returned"
    /\ scr' = NoCall
    /\ Quiet

\* run_profile_now, then run_search_profile up to its call
\* scraper.search_articles(topics, max_results=50)
RunSearch(p) ==
    /\ pc["manual"] = "idle"
    /\ p \in DOMAIN profiles
    /\ pc' = [pc EXCEPT !["manual"] = "search"]
    /\ run' = [run EXCEPT !["manual"] = [IdleRun EXCEPT !.pid = p]]
    /\ scr' = [NoCall EXCEPT !.fn = "search", !.pc = "build",
                             !.topics = profiles[p].topics,
                             !.max_results = MaxResults,
                             !.days_back = DefaultDaysBack]
    /\ response' = NoResponse
    /\ UNCHANGED <<profiles, catalog, files, jobs, installed, batch, now, driverAlive, fetchCount, prev, track>>

\* articles = scraper.search_articles(...): the run goes on with the list
\* the call returned.  The record of the call stays until the next call.
SearchReturned ==
    /\ pc["manual"] = "search"
    /\ scr.pc = "returned"
    /\ BeginRun("manual", run["manual"].pid, scr.articles)
    /\ scr' = [scr EXCEPT !.pc = "used"]
    /\ UNCHANGED <<profiles, catalog, files, jobs, installed, batch, now, driverAlive, fetchCount, track, response>>

\* the profile handlers
Handlers ==
    \/ \E f \in Frequencies, a \in BOOLEAN : CreateProfile(DefaultTopics, f, a)
    \/ \E p \in ProfileIds, f \in Frequencies, a \in BOOLEAN :
          UpdateProfile(p, DefaultTopics, f, a)
    \/ \E p \in ProfileIds : DeleteProfile(p)

\* the steps of run_search_profile on either thread
Pipeline ==
    \/ \E r \in Runners : Check(r)
    \/ \E r \in Runners : DownloadBegin(r)
    \/ \E r \in Runners, o \in FetchOutcomes : Fetch(r, o)
    \/ \E r \in Runners : Commit(r)

Next ==
    \/ Handlers
    \/ Tick
    \/ \E p \in ProfileIds, arts \in ResultLists : ManualStart(p, arts)
    \/ \E arts \in ResultLists : SchedStart(arts)
    \/ Pipeline
    \/ ManualReturn
    \/ SchedReturn

\* The whole program.  Its state space is the product of the three parts
\* below and is checked through them: the handlers write profiles and jobs
\* only, the pipeline steps write neither the flags nor the frequency of a
\* profile, and a job, once due, starts the same run whatever installed it.
Spec == Init /\ [][Next]_vars

\* The ingest pipeline on both threads, over a fixed profile table
NextPipeline ==
    \/ Tick
    \/ \E p \in ProfileIds, arts \in ResultLists : ManualStart(p, arts)
    \/ \E arts \in ResultLists : SchedStart(arts)
    \/ Pipeline
    \/ ManualReturn
    \/ SchedReturn

SpecPipeline == InitHourly /\ [][NextPipeline]_vars

\* The timer registry under the profile handlers; every search comes back
\* empty, so a scheduled run goes straight to its commit
NextScheduler ==
    \/ Handlers
    \/ Tick
    \/ SchedStart(<<>>)
    \/ Commit("sched")
    \/ SchedReturn

SpecScheduler == Init /\ [][NextScheduler]_vars

\* Manual runs one after the other, each observed, and profiles deleted
NextRepeat ==
    \/ \E p \in ProfileIds : DeleteProfile(p)
    \/ \E p \in ProfileIds, arts \in ResultLists : ManualStart(p, arts)
    \/ Check("manual")
    \/ DownloadBegin("manual")
    \/ \E o \in FetchOutcomes : Fetch("manual", o)
    \/ Commit("manual")
    \/ ManualReturn

SpecRepeat == InitTracked /\ [][NextRepeat]_vars

\* Manual runs over every list the parser can produce
NextParsed ==
    \/ \E p \in ProfileIds, arts \in ParsedLists : ManualStart(p, arts)
    \/ Check("manual")
    \/ DownloadBegin("manual")
    \/ \E o \in FetchOutcomes : Fetch("manual", o)
    \/ Commit("manual")
    \/ ManualReturn

SpecParsed == InitHourly /\ [][NextParsed]_vars

\* The profile handlers under any request values
NextProfiles ==
    \/ \E t \in RequestTopics, f \in RequestFrequencies, a \in BOOLEAN :
          CreateProfile(t, f, a)
    \/ \E p \in ProfileIds, t \in RequestTopics, f \in RequestFrequencies, a \in BOOLEAN :
          UpdateProfile(p, t, f, a)
    \/ \E p \in ProfileIds : DeleteProfile(p)

SpecProfiles == Init /\ [][NextProfiles]_vars

\* The scraper's methods, called with any arguments
NextScraper ==
    \/ SearchCall
    \/ BuildQuery
    \/ \E resp \in Responses : FirstGet(resp)
    \/ \E resp \in Responses : RetryGet(resp)
    \/ DownloadCall
    \/ DownloadName
    \/ ScraperReturn

SpecScraper == InitHourly /\ [][NextScraper]_vars

\* Manual runs, each with its own search request, over a fixed profile table
NextSearchRun ==
    \/ Tick
    \/ \E p \in ProfileIds : RunSearch(p)
    \/ BuildQuery
    \/ \E resp \in Responses : FirstGet(resp)
    \/ \E resp \in Responses : RetryGet(resp)
    \/ SearchReturned
    \/ Check("manual")
    \/ DownloadBegin("manual")
    \/ \E o \in FetchOutcomes : Fetch("manual", o)
    \/ Commit("manual")
    \/ ManualReturn

SpecSearchRun == InitTracked /\ [][NextSearchRun]_vars

\* Manual runs over lists that may hold two versions of an entry
NextVersions ==
    \/ \E p \in ProfileIds, arts \in VersionLists : ManualStart(p, arts)
    \/ Check("manual")
    \/ DownloadBegin("manual")
    \/ \E o \in FetchOutcomes : Fetch("manual", o)
    \/ Commit("manual")
    \/ ManualReturn

SpecVersions == InitTracked /\ [][NextVersions]_vars

\* ================================================================ claims
Rows(id) == Cardinality(RowsWithId(catalog, id))
Timers(p) == Cardinality(Tagged(jobs, p))
HitUnique(r) == run[r].err = "IntegrityError"

\* C1: no two catalog entries have the same external identifier, whichever
\* profiles ingested them.
C1_UniqueExternalId ==
    \A i, j \in DOMAIN catalog : catalog[i].arxiv_id = catalog[j].arxiv_id => i = j

\* a run of one profile was refused an identifier that another profile's run
\* had committed
C1_Witness ==
    \E r \in Runners :
        /\ pc[r] = "raised"
        /\ HitUnique(r)
        /\ \E i \in DOMAIN run[r].pending, j \in DOMAIN catalog :
              /\ run[r].pending[i].arxiv_id = catalog[j].arxiv_id
              /\ catalog[j].profile_id # run[r].pid

C3_FetchedAtMostOnce ==
    \A id \in ArxivIds : fetchCount[id] <= 1 /\ Rows(id) <= 1

\* C4: a run that hits the uniqueness constraint ends like a run whose
\* pre-check hit: it returns normally, its other new entries are committed
\* and the profile's last_run is written.
C4_DuplicateIsDiscarded ==
    \A r \in Runners :
        (Finished(r) /\ HitUnique(r))
            => /\ pc[r] = "done"
               /\ run[r].stamped
               /\ \A i \in DOMAIN run[r].pending :
                     run[r].pending[i].arxiv_id \in IdsOf(catalog)

\* C5: the step that turns an active profile inactive leaves no timer tagged
\* with the profile.
C5_DeactivationCancelsTimer ==
    [][\A p \in ProfileIds :
          (/\ p \in DOMAIN profiles
           /\ p \in DOMAIN profiles'
           /\ profiles[p].is_active
           /\ ~profiles'[p].is_active) => Tagged(jobs', p) = {}]_vars

\* C6: the step that deletes a profile leaves no timer tagged with its id.
C6_DeleteCancelsTimer ==
    [][\A p \in ProfileIds :
          (p \in DOMAIN profiles /\ p \notin DOMAIN profiles')
              => Tagged(jobs', p) = {}]_vars

\* C7: the timer registry holds at most one timer per profile id.
C7_OneTimerPerProfile == \A p \in ProfileIds : Timers(p) <= 1

\* every profile id has its timer, and one of them was installed by a
\* handler after startup for a profile that was never run
C7_Witness ==
    /\ now > 0
    /\ \A p \in ProfileIds : Timers(p) = 1
    /\ \E i \in DOMAIN jobs :
          /\ jobs[i].tag \in DOMAIN profiles
          /\ profiles[jobs[i].tag].last_run = NoRun
          /\ jobs[i].next_run = now + jobs[i].interval

\* C8: the background driver survives whatever a scheduled run raises.
C8_DriverSurvives == driverAlive

\* C9: every pipeline invocation that has ended has written the profile's
\* last_run.
C9_EveryRunStamps ==
    \A r \in Runners : Finished(r) => run[r].stamped

\* C10: a download that returns None adds no row and the loop goes on to the
\* next result; a row is added only with the path a download returned, and
\* the catalog grows only by such rows.
C10_FailedFetchWritesNoRow ==
    [][\A r \in Runners :
          LET returned == pc[r] \in {"download", "fetch"} /\ pc'[r] \notin {"download", "fetch"}
              old == run[r]
              new == run'[r]
          IN  /\ (returned /\ new.file_path = None)
                    => /\ new.pending = old.pending
                       /\ new.count = old.count
                       /\ new.todo = Tail(old.todo)
                       /\ pc'[r] = IF new.todo = <<>> THEN "commit" ELSE "check"
              /\ (pc'[r] # "idle" /\ new.pending # old.pending)
                    => /\ returned
                       /\ new.file_path \in files'
                       /\ new.pending = Append(old.pending,
                              NewRow(Head(old.todo).id, new.file_path, old.pid))
              /\ (pc[r] = "commit" /\ pc'[r] = "done")
                    => catalog' = catalog \o old.pending
              /\ catalog' # catalog
                    => \E q \in Runners : pc[q] = "commit" /\ pc'[q] = "done"]_vars

\* the download of a run's first result returned None: nothing is pending
\* and the loop stands at the next result
C10_Witness ==
    \E r \in Runners :
        /\ pc[r] = "check"
        /\ run[r].file_path = None
        /\ run[r].pending = <<>>
        /\ run[r].todo # <<>>

\* C11: no failure on one item aborts the batch: whatever list the parser
\* produced, a run that has ended has gone through every item of the list,
\* has committed the rows of the items that succeeded and has returned its
\* count.
C11_ItemFailureKeepsBatch ==
    \A r \in Runners :
        Finished(r)
            => /\ pc[r] = "done"
               /\ run[r].todo = <<>>
               /\ \A i \in DOMAIN run[r].pending :
                     run[r].pending[i].arxiv_id \in IdsOf(catalog)

\* C12: a search whose first, dated query came back with no entry under a
\* window of less than 365 days has sent exactly one more query, without the
\* date clause and with a smaller cap, and returns what that one yielded;
\* any other search has sent one query only.
C12_EmptyWindowFallback ==
    (scr.fn = "search" /\ scr.pc = "returned")
        => LET dated == DatedQuery(scr.topics, scr.days_back)
               emptyInWindow == /\ scr.got[1].ok
                                /\ scr.got[1].entries = <<>>
                                /\ scr.days_back < YearDays
           IN  /\ scr.sent[1] = [query |-> dated, max_results |-> MaxResults]
               /\ emptyInWindow
                     => /\ Len(scr.sent) = 2
                        /\ scr.sent[2].query = JoinedQuery(scr.topics)
                        /\ \A i \in DOMAIN scr.sent[2].query :
                              scr.sent[2].query[i].kind # "submittedDate"
                        /\ scr.sent[2].max_results = RetryCap
                        /\ scr.sent[2].max_results < scr.sent[1].max_results
                        /\ scr.articles = IF scr.got[2].ok THEN scr.got[2].entries ELSE <<>>
               /\ ~emptyInWindow => Len(scr.sent) = 1
               /\ (scr.got[1].ok /\ ~emptyInWindow) => scr.articles = scr.got[1].entries

\* a search over a 7-day window found nothing at first and returns the
\* MaxLen entries of its second query
C12_Witness ==
    /\ scr.fn = "search"
    /\ scr.pc = "returned"
    /\ scr.days_back = 7
    /\ Len(scr.sent) = 2
    /\ scr.got[1].entries = <<>>
    /\ Len(scr.articles) = MaxLen

\* C13: a manual run is answered either with success and the count of the
\* run or with success=false and the error; no exception of the pipeline run
\* leaves run_profile_now.  (prev holds a run exactly when it returned.)
C13_ManualRunAlwaysAnswers ==
    /\ response.kind \in {"none", "json"}
    /\ response.kind = "json"
          => \/ /\ response.success
                /\ response.error = "none"
                /\ response.count \in 0..MaxLen
                /\ prev # NoPrev
             \/ /\ ~response.success
                /\ response.error \in {"IntegrityError", "StaleDataError", "KeyError"}
                /\ prev = NoPrev

\* a manual run raised at its commit, the profile having been deleted under
\* it, and the request was answered with the error
C13_Witness ==
    /\ pc["manual"] = "idle"
    /\ response.kind = "json"
    /\ ~response.success
    /\ response.error = "StaleDataError"

\* C14: every stored profile has at least one topic and a poll interval
\* within MIN_FREQUENCY_HOURS..MAX_FREQUENCY_HOURS, whatever the create and
\* update requests carried.
C14_ProfilesWithinLimits ==
    \A p \in DOMAIN profiles :
        /\ profiles[p].topics # <<>>
        /\ profiles[p].frequency_hours >= MIN_FREQUENCY_HOURS
        /\ profiles[p].frequency_hours <= MAX_FREQUENCY_HOURS

\* the driver calls a job for profile p in this step
Fires(p) == pc["sched"] = "idle" /\ pc'["sched"] # "idle" /\ run'["sched"].pid = p

\* the job the driver calls in this step is the timer the registry holds for p
FiresRegistered(p) == \E i \in Tagged(jobs, p) : jobs[i] = Head(batch')

\* the registry holds one timer for p, first due one interval from now
OneFreshTimer(p) ==
    /\ Timers(p)' = 1
    /\ \A i \in Tagged(jobs', p) :
          jobs'[i] = [tag |-> p, interval |-> profiles'[p].frequency_hours,
                      next_run |-> now + profiles'[p].frequency_hours]

\* C15: the step that turns an inactive profile active installs one timer,
\* first due exactly one interval later, and the driver calls no job for the
\* profile but that timer: a timer installed before the deactivation does
\* not fire any more.
C15_ReactivationStartsAfresh ==
    [][\A p \in ProfileIds :
          /\ (/\ p \in DOMAIN profiles
              /\ p \in DOMAIN profiles'
              /\ ~profiles[p].is_active
              /\ profiles'[p].is_active) => OneFreshTimer(p)
          /\ (Fires(p) /\ installed[p] = "reactivate") => FiresRegistered(p)]_vars

\* a topic matches the whitelist: it starts with one of the listed prefixes
\* or is one of the listed bare names
MatchesWhitelist(topic) ==
    \/ \E prefix \in CategoryPrefixes : StartsWith(topic, prefix)
    \/ topic \in BareCategories

InSeq(x, sq) == \E i \in DOMAIN sq : sq[i] = x

\* C16: in the query that was built there is at most one category clause; a
\* topic is a term of it if and only if it matches the whitelist, and every
\* other topic has a title-or-abstract clause of its own and is in no
\* category clause.
C16_PartitionByWhitelist ==
    (scr.fn = "search" /\ scr.pc # "build")
        => LET q == scr.query
               cats == { i \in DOMAIN q : q[i].kind = "cat" }
               InCat(t) == \E i \in cats : InSeq(t, q[i].terms)
               OwnClause(t) == \E i \in DOMAIN q : q[i] = Clause("ti_abs", <<t>>, 0)
           IN  /\ Cardinality(cats) <= 1
               /\ \A k \in DOMAIN scr.topics :
                     LET t == scr.topics[k]
                     IN  /\ InCat(t) <=> MatchesWhitelist(t)
                         /\ OwnClause(t) <=> ~MatchesWhitelist(t)

Digits == {"0", "1", "2", "3", "4", "5", "6", "7", "8", "9"}

\* how many digits the identifier ends with
RECURSIVE TrailingDigits(_)
TrailingDigits(id) ==
    IF id = <<>> \/ id[Len(id)] \notin Digits THEN 0
    ELSE 1 + TrailingDigits(SubSeq(id, 1, Len(id) - 1))

\* the identifier without a trailing v<number>, if it ends with one
WithoutVersion(id) ==
    LET n == TrailingDigits(id)
    IN  IF n > 0 /\ Len(id) > n /\ id[Len(id) - n] = "v"
        THEN SubSeq(id, 1, Len(id) - n - 1)
        ELSE id

\* C17: the artifact filename is the identifier without its trailing
\* v<number>, if it has one, followed by .pdf.
C17_FilenameStripsVersion ==
    (scr.fn = "download" /\ scr.pc = "returned")
        => scr.filename = WithoutVersion(scr.arxiv_id) \o <<".pdf">>

\* 2301.00001v2 was given the filename 2301.00001.pdf
C17_Witness ==
    /\ scr.fn = "download"
    /\ scr.pc = "returned"
    /\ scr.arxiv_id = <<"2", "3", "0", "1", ".", "0", "0", "0", "0", "1", "v", "2">>
    /\ scr.filename = <<"2", "3", "0", "1", ".", "0", "0", "0", "0", "1", ".pdf">>

\* C18: the count a run returns is the number of rows it added: with no
\* other run under way, the catalog size after the run less the size before.
C18_CountIsRowsAdded ==
    \A r \in Runners :
        (pc[r] = "done" /\ run[r].solo)
            => /\ run[r].count = Len(catalog) - run[r].startSize
               /\ run[r].count = Len(run[r].pending)

\* a run over MaxLen results, started on a catalog that had a row, has
\* returned a count of one: it added the row of one result and not of the other
C18_Witness ==
    \E r \in Runners :
        /\ pc[r] = "done"
        /\ run[r].solo
        /\ Len(run[r].seen) = MaxLen
        /\ run[r].startSize > 0
        /\ run[r].count = 1

\* C19: the step that changes the interval of an active profile leaves one
\* timer for it, with the new frequency_hours as its period, and from then
\* on the driver calls no job for the profile but that timer: the timer with
\* the old period does not fire again.
C19_IntervalChangeReplacesTimer ==
    [][\A p \in ProfileIds :
          /\ (/\ p \in DOMAIN profiles
              /\ p \in DOMAIN profiles'
              /\ profiles[p].is_active
              /\ profiles'[p].is_active
              /\ profiles'[p].frequency_hours # profiles[p].frequency_hours)
                 => OneFreshTimer(p)
          /\ (Fires(p) /\ installed[p] = "replace") => FiresRegistered(p)]_vars

\* C20: when the loop comes to a result whose identifier is in the catalog,
\* whichever profile's run put it there, the run moves on to the next result
\* (or fails in flushing rows of its own): it does not enter download_article,
\* adds no row, does not count the result, and the catalog, the files and the
\* artifact fetches stay as they are.
C20_KnownIdIsSkipped ==
    [][\A r \in Runners :
          (/\ pc[r] = "check"
           /\ Head(run[r].todo).id \in IdsOf(catalog)
           /\ (pc'[r] # pc[r] \/ run'[r].todo # run[r].todo))
              => /\ \/ pc'[r] = "raised" /\ HitUnique(r)'
                    \/ /\ pc'[r] = NextPc(run[r])
                       /\ run'[r].todo = Tail(run[r].todo)
                 /\ run'[r].pending = run[r].pending
                 /\ run'[r].count = run[r].count
                 /\ catalog' = catalog
                 /\ files' = files
                 /\ fetchCount' = fetchCount]_vars

\* a run of one profile has gone through its only result, which a run of
\* another profile had put into the catalog: no download, no row, count 0
C20_Witness ==
    \E r \in Runners :
        /\ pc[r] = "commit"
        /\ Len(run[r].seen) = 1
        /\ run[r].file_path = Unset
        /\ run[r].count = 0
        /\ run[r].pending = <<>>
        /\ \E j \in DOMAIN catalog :
              /\ catalog[j].arxiv_id = run[r].seen[1].id
              /\ catalog[j].profile_id # run[r].pid

\* a request of the call ended in a RequestException
SearchFailed(call) ==
    call.fn = "search" /\ \E i \in DOMAIN call.got : ~call.got[i].ok

\* the failed request is the call's last one, and the call returned []
EndedEmpty(call) ==
    \A i \in DOMAIN call.got :
        ~call.got[i].ok => /\ i = Len(call.got)
                           /\ Len(call.sent) = i
                           /\ call.pc \in {"returned", "used"}
                           /\ call.articles = <<>>

\* C21: a network error on a search request, the first or the undated second
\* one, is followed by no further request and search_articles returns []; the
\* run that made the call then goes straight to its commit, which succeeds,
\* adds no catalog row and writes the current time to the profile's last_run,
\* and the run returns 0, which run_profile_now reports as a success.
C21_SearchErrorGivesEmptyRun ==
    [][/\ SearchFailed(scr') => EndedEmpty(scr')
       /\ (SearchFailed(scr) /\ Active("manual")) =>
              LET rr == run'["manual"]
              IN  /\ pc'["manual"] \in {"search", "commit", "done", "idle"}
                  /\ pc'["manual"] \in {"commit", "done"} =>
                         /\ rr.todo = <<>>
                         /\ rr.pending = <<>>
                         /\ rr.count = 0
                  /\ (pc["manual"] = "commit" /\ pc'["manual"] = "done") =>
                         /\ catalog' = catalog
                         /\ profiles'[rr.pid].last_run = now
                  /\ pc'["manual"] = "done" => Len(catalog') = rr.startSize
                  /\ pc'["manual"] = "idle" =>
                         /\ pc["manual"] = "done"
                         /\ response' = [kind |-> "json", success |-> TRUE,
                                         count |-> 0, error |-> "none"]]_vars

\* the dated request came back empty, the undated one failed, and the run,
\* started in a later hour over a catalog an earlier run had filled, has
\* committed: no new row, count 0, last_run is the current hour
C21_Witness ==
    /\ SearchFailed(scr)
    /\ Len(scr.got) = 2
    /\ scr.got[1].ok
    /\ pc["manual"] = "done"
    /\ run["manual"].count = 0
    /\ catalog # <<>>
    /\ Len(catalog) = run["manual"].startSize
    /\ now > 0
    /\ profiles[run["manual"].pid].last_run = now

\* runner r's commit goes through in this step
Commits(r) == pc[r] = "commit" /\ pc'[r] = "done"

\* runner r's run is left by an exception in this step
Aborts(r) == pc[r] # "raised" /\ pc'[r] = "raised"

\* C22: the catalog and the last_run column change only in the step in which
\* a run's commit goes through, and that step appends all the rows the run
\* prepared at once; the step in which a run aborts, in its loop or at its
\* commit, leaves the catalog and the profile table as they were, and no
\* step, an abort included, takes a downloaded file away.
C22_RowsCommittedTogether ==
    [][/\ catalog' # catalog =>
              \E r \in Runners : Commits(r) /\ catalog' = catalog \o run[r].pending
       /\ \A p \in DOMAIN profiles :
              (p \in DOMAIN profiles' /\ profiles'[p].last_run # profiles[p].last_run)
                  => \E r \in Runners : Commits(r) /\ run[r].pid = p
       /\ \A r \in Runners :
              Aborts(r) => /\ catalog' = catalog
                           /\ profiles' = profiles
                           /\ run'[r].pending = run[r].pending
       /\ files \subseteq files']_vars

\* a run has aborted holding a prepared row whose identifier is not in the
\* catalog and whose file is on disk
C22_Witness ==
    \E r \in Runners :
        /\ pc[r] = "raised"
        /\ \E i \in DOMAIN run[r].pending :
               /\ run[r].pending[i].arxiv_id \notin IdsOf(catalog)
               /\ run[r].pending[i].file_path \in files

\* two identifiers that differ only in their version suffix
Siblings(a, b) == a # b /\ WithoutVersion(a) = WithoutVersion(b)

\* the rows, committed or prepared by the run, of the versions of id other
\* than id itself
SiblingRows(rr, id) ==
    { row \in { catalog[i] : i \in DOMAIN catalog }
               \cup { rr.pending[i] : i \in DOMAIN rr.pending } :
         Siblings(row.arxiv_id, id) }

\* how many results of the run's list came before the current one
DoneSoFar(rr) == Len(rr.seen) - Len(rr.todo)

\* a version of the current result came earlier in the run's list
SiblingCameFirst(rr) ==
    \E j \in 1..DoneSoFar(rr) : Siblings(rr.seen[j].id, Head(rr.todo).id)

\* the current result is not in the catalog and not prepared by the run
NewKey(rr) == Head(rr.todo).id \notin IdsOf(catalog) \cup IdsOf(rr.pending)

\* what the second of two versions meets: it is not skipped, it finds the
\* file present so that nothing is fetched, and it gets a row of its own with
\* the path that the row of the other version carries
SecondVersionStep(r) ==
    LET rr == run[r]
        id == Head(rr.todo).id
    IN  /\ pc[r] = "check" => pc'[r] = "download"
        /\ pc[r] = "download" =>
               /\ pc'[r] = NextPc(rr)
               /\ files' = files
               /\ fetchCount' = fetchCount
               /\ run'[r].pending = Append(rr.pending, NewRow(id, FilePath(id), rr.pid))
               /\ SiblingRows(rr, id) # {}
               /\ \A row \in SiblingRows(rr, id) : row.file_path = FilePath(id)

====
